---- MODULE Spec2Model ----
(***************************************************************************)
(* A model of ipa_import.py: the import of a CSV roster into a FreeIPA     *)
(* directory.  Text is a sequence of one-character tokens; a non-ASCII     *)
(* Latin-1 character is written as a token in braces ("{a-uml}").  Group   *)
(* identifiers, logins and descriptions are TLA+ strings.                  *)
(***************************************************************************)
EXTENDS Integers, Sequences, FiniteSets, TLC

VARIABLES
    csv_rows,            \* the rows of the CSV file, as read_csv_file yields them
    csv_entries,         \* main's csv_entries, changed in place by the fix_* passes
    group_descriptions,  \* the dict fix_csv_group_names builds and returns
    pc,                  \* the position of the run
    i,                   \* the index of the entry the current loop works on
    changes,             \* the dict of the five command categories
    group_changes,       \* find_group_changes: its local dict `changes`
    checked,             \* find_group_changes: the groups already looked up
    issued,              \* commit_changes: the <<command, key>> pairs already issued
    answer,              \* the operator's last answer to the prompt, if any
    exit_status,         \* the status the process exits with ("none" while running)
    log,                 \* every ipa call and every prompt of the run, in order
    directory,           \* the directory: its users and its groups
    directory0           \* the directory before the run

vars == <<csv_rows, csv_entries, group_descriptions, pc, i, changes,
          group_changes, checked, issued, answer, exit_status, log,
          directory, directory0>>

(***************************************************************************)
(* Bounds of the model.                                                    *)
(***************************************************************************)
MaxLen == 2          \* the longest group field of the normaliser's batches
MaxEntries == 2      \* the most rows of a CSV file
MaxFailures == 1     \* the most group lookups that fail in one run

(***************************************************************************)
(* Configuration section of the script.                                    *)
(***************************************************************************)
IPAUSERS == "ipausers"
DEFAULT_GROUPS == {IPAUSERS}
GROUP_SEP == "/"
IPA_CMDLINE_MAP == <<
    [key |-> "first_name", flag |-> "first"],
    [key |-> "last_name", flag |-> "last"],
    [key |-> "email_address", flag |-> "email"],
    [key |-> "telephone_number", flag |-> "phone"],
    [key |-> "mobile_telephone_number", flag |-> "mobile"] >>

(***************************************************************************)
(* Text.                                                                   *)
(***************************************************************************)
Whitespace == {" ", "{tab}"}
AsciiLetters ==
    {"a", "b", "c", "e", "i", "o", "p", "r", "s", "u", "x", "y", "A", "B", "X"}
Digits == {"0", "1", "2", "3", "4", "5", "6", "7", "8", "9"}
GroupNameChars == AsciiLetters \cup Digits \cup {"_", "/", "-"}

Min(a, b) == IF a < b THEN a ELSE b

RECURSIVE Join(_)
Join(s) == IF s = <<>> THEN "" ELSE Head(s) \o Join(Tail(s))

RECURSIVE LStrip(_, _)
LStrip(s, cs) ==
    IF s # <<>> /\ Head(s) \in cs THEN LStrip(Tail(s), cs) ELSE s

RECURSIVE RStrip(_, _)
RStrip(s, cs) ==
    IF s # <<>> /\ s[Len(s)] \in cs THEN RStrip(SubSeq(s, 1, Len(s) - 1), cs)
    ELSE s

Strip(s, cs) == RStrip(LStrip(s, cs), cs)

\* s.split(sep): the pieces between separators, empty pieces kept.
RECURSIVE SplitOn(_, _)
SplitOn(s, sep) ==
    IF \E k \in 1..Len(s) : s[k] = sep
    THEN LET k == CHOOSE k \in 1..Len(s) :
                      s[k] = sep /\ \A j \in 1..(k - 1) : s[j] # sep
         IN  <<SubSeq(s, 1, k - 1)>> \o SplitOn(SubSeq(s, k + 1, Len(s)), sep)
    ELSE <<s>>

\* s.split(): the maximal runs of non-whitespace, none of them empty.
RECURSIVE SplitWhitespace(_)
SplitWhitespace(s) ==
    LET t == LStrip(s, Whitespace)
    IN  IF t = <<>> THEN <<>>
        ELSE IF \E k \in 1..Len(t) : t[k] \in Whitespace
        THEN LET k == CHOOSE k \in 1..Len(t) :
                          t[k] \in Whitespace
                          /\ \A j \in 1..(k - 1) : t[j] \notin Whitespace
             IN  <<SubSeq(t, 1, k - 1)>> \o SplitWhitespace(SubSeq(t, k, Len(t)))
        ELSE <<t>>

\* sep.join(parts)
RECURSIVE JoinWith(_, _)
JoinWith(parts, sep) ==
    IF parts = <<>> THEN <<>>
    ELSE IF Len(parts) = 1 THEN parts[1]
    ELSE parts[1] \o <<sep>> \o JoinWith(Tail(parts), sep)

LowerChar(c) ==
    CASE c = "A" -> <<"a">>
      [] c = "B" -> <<"b">>
      [] c = "X" -> <<"x">>
      [] c = "{A-uml}" -> <<"{a-uml}">>
      [] OTHER -> <<c>>

UmlautChar(c) ==
    CASE c = "{a-uml}" -> <<"a", "e">>
      [] c = "{o-uml}" -> <<"o", "e">>
      [] c = "{u-uml}" -> <<"u", "e">>
      [] OTHER -> <<c>>

\* unicodedata.normalize('NFKD', c).encode('ascii', 'ignore'): the ASCII part
\* of the decomposition of a Latin-1 character.
NfkdAsciiChar(c) ==
    CASE c = "{e-acute}" -> <<"e">>
      [] c = "{a-uml}" -> <<"a">>
      [] c = "{o-uml}" -> <<"o">>
      [] c = "{u-uml}" -> <<"u">>
      [] c = "{A-uml}" -> <<"A">>
      [] c = "{1/2}" -> <<"1", "2">>
      [] c = "{sz}" -> <<>>
      [] OTHER -> <<c>>

GroupNameStripChar(c) == IF c \in GroupNameChars THEN <<c>> ELSE <<>>

\* s.lower()
RECURSIVE Lower(_)
Lower(s) == IF s = <<>> THEN <<>> ELSE LowerChar(Head(s)) \o Lower(Tail(s))

\* the loop of lines 101-102
RECURSIVE ReplaceUmlauts(_)
ReplaceUmlauts(s) ==
    IF s = <<>> THEN <<>> ELSE UmlautChar(Head(s)) \o ReplaceUmlauts(Tail(s))

\* lines 105-106
RECURSIVE NfkdAscii(_)
NfkdAscii(s) ==
    IF s = <<>> THEN <<>> ELSE NfkdAsciiChar(Head(s)) \o NfkdAscii(Tail(s))

\* _groupname_strip_re.sub('', s)
RECURSIVE GroupNameStrip(_)
GroupNameStrip(s) ==
    IF s = <<>> THEN <<>>
    ELSE GroupNameStripChar(Head(s)) \o GroupNameStrip(Tail(s))

(***************************************************************************)
(* fix_csv_group_names, one entry.                                         *)
(***************************************************************************)
OriginalGroupName(field) == Strip(field, {" ", GROUP_SEP})

GroupName(field) ==
    LET original == OriginalGroupName(field)
        joined == Lower(JoinWith(SplitWhitespace(original), "_"))
        umlauts == ReplaceUmlauts(joined)
        ascii == NfkdAscii(umlauts)
    IN  GroupNameStrip(ascii)

\* group_names, as strings
GroupNames(field) ==
    LET parts == SplitOn(GroupName(field), GROUP_SEP)
    IN  [k \in 1..Len(parts) |-> Join(parts[k])]

\* original_group_name.split(GROUP_SEP), as strings
OriginalSegments(field) ==
    LET parts == SplitOn(OriginalGroupName(field), GROUP_SEP)
    IN  [k \in 1..Len(parts) |-> Join(parts[k])]

MemberOfGroups(field) ==
    {GroupNames(field)[k] : k \in 1..Len(GroupNames(field))} \ {""}

Zip(a, b) == [k \in 1..Min(Len(a), Len(b)) |-> <<a[k], b[k]>>]

DictPut(d, k, v) == [x \in DOMAIN d \cup {k} |-> IF x = k THEN v ELSE d[x]]

DictSetDefault(d, k, v) == IF k \in DOMAIN d THEN d ELSE DictPut(d, k, v)

\* d.update(pairs): the pairs are put in order, a later one replacing an earlier.
RECURSIVE DictUpdate(_, _)
DictUpdate(d, pairs) ==
    IF pairs = <<>> THEN d
    ELSE DictUpdate(DictPut(d, Head(pairs)[1], Head(pairs)[2]), Tail(pairs))

RECURSIVE DictUpdateKeepFirst(_, _)
DictUpdateKeepFirst(d, pairs) ==
    IF pairs = <<>> THEN d
    ELSE DictUpdateKeepFirst(DictSetDefault(d, Head(pairs)[1], Head(pairs)[2]),
                             Tail(pairs))

DescriptionsKeepFirst(d, field) ==
    DictUpdateKeepFirst(d, Zip(GroupNames(field), OriginalSegments(field)))

\* line 114: group_descriptions.update(zip(group_names, original...split(SEP)))
UpdateDescriptions(d, field) ==
    DictUpdate(d, Zip(GroupNames(field), OriginalSegments(field)))

(***************************************************************************)
(* The other fix_* passes over the CSV entries.                            *)
(***************************************************************************)
\* fix_csv_emails, one entry
FixCsvEmail(entry) ==
    IF \E k \in 1..Len(entry.email_address) : entry.email_address[k] = ";"
    THEN [entry EXCEPT !.email_address = SplitOn(entry.email_address, ";")[1]]
    ELSE entry

ZeroFields == <<"email_address", "telephone_number", "mobile_telephone_number">>

\* fix_csv_zero_entries, one entry
FixCsvZeroEntry(entry) ==
    [k \in DOMAIN entry |->
        IF (\E j \in 1..Len(ZeroFields) : ZeroFields[j] = k)
           /\ Strip(entry[k], Whitespace) = <<"0">>
        THEN <<>> ELSE entry[k]]

(***************************************************************************)
(* The directory, as the ipa command line tool shows and changes it.  A    *)
(* user is a record of its stored attributes (only the non-empty ones) and *)
(* of the groups it is a member of.                                        *)
(***************************************************************************)
AttrKeys == {IPA_CMDLINE_MAP[k].key : k \in 1..Len(IPA_CMDLINE_MAP)}

RECURSIVE SetToSeq(_)
SetToSeq(S) ==
    IF S = {} THEN <<>>
    ELSE LET x == CHOOSE x \in S : TRUE IN <<x>> \o SetToSeq(S \ {x})

\* One "key: value" line of the tool's output, split at the first colon.
OutputValue(v) == <<" ">> \o v

\* query_ipa for one username: parse_freeipa_output of `ipa user-show --all`,
\* or {} when the command fails.
UserShow(users, username) ==
    IF username \notin DOMAIN users THEN <<>>
    ELSE LET u == users[username]
             keys == {"user_login"} \cup DOMAIN u.attrs
                     \cup (IF u.groups = {} THEN {} ELSE {"member_of_groups"})
         IN  [k \in keys |->
                 IF k = "user_login" THEN <<username>>
                 ELSE IF k = "member_of_groups"
                 THEN LET names == SetToSeq(u.groups)
                      IN  Strip(OutputValue(JoinWith(
                                    [j \in 1..Len(names) |-> <<names[j]>>], ", ")),
                                Whitespace)
                 ELSE Strip(OutputValue(u.attrs[k]), Whitespace)]

\* fix_ipa_groups, one entry
FixIpaGroups(entry) ==
    IF "member_of_groups" \in DOMAIN entry
    THEN LET parts == SplitOn(entry["member_of_groups"], ", ")
         IN  [entry EXCEPT !["member_of_groups"] =
                 {Join(parts[k]) : k \in 1..Len(parts)} \ {""}]
    ELSE entry

IpaEntry(users, username) == FixIpaGroups(UserShow(users, username))

ArgValue(args, flag) ==
    LET k == CHOOSE k \in 1..Len(args) : args[k].flag = flag IN args[k].val

ArgFlags(args) == {args[k].flag : k \in 1..Len(args)}

FlagKey(flag) ==
    LET k == CHOOSE k \in 1..Len(IPA_CMDLINE_MAP) : IPA_CMDLINE_MAP[k].flag = flag
    IN  IPA_CMDLINE_MAP[k].key

\* The stored attributes after the flags of a user-add or user-mod are applied:
\* an empty value leaves the attribute unset.
StoreAttrs(attrs, args) ==
    LET set == {FlagKey(f) : f \in ArgFlags(args)}
        val(k) == IF k \in set
                  THEN ArgValue(args, CHOOSE f \in ArgFlags(args) : FlagKey(f) = k)
                  ELSE attrs[k]
    IN  [k \in {k \in DOMAIN attrs \cup set : val(k) # <<>>} |-> val(k)]

\* Each command gives the directory after it and its exit status.
IpaUserAdd(d, login, args) ==
    IF login \in DOMAIN d.users \/ login = ""
    THEN [users |-> d.users, groups |-> d.groups, rc |-> 1]
    ELSE [users |-> DictPut(d.users, login,
                            [attrs |-> StoreAttrs(<<>>, args),
                             groups |-> DEFAULT_GROUPS]),
          groups |-> d.groups, rc |-> 0]

IpaUserMod(d, login, args) ==
    IF login \notin DOMAIN d.users
    THEN [users |-> d.users, groups |-> d.groups, rc |-> 2]
    ELSE [users |-> [d.users EXCEPT
                        ![login].attrs = StoreAttrs(d.users[login].attrs, args)],
          groups |-> d.groups, rc |-> 0]

IpaGroupAdd(d, group, args) ==
    IF group \in d.groups
    THEN [users |-> d.users, groups |-> d.groups, rc |-> 1]
    ELSE [users |-> d.users, groups |-> d.groups \cup {group}, rc |-> 0]

IpaGroupAddMember(d, group, args) ==
    IF group \notin d.groups
    THEN [users |-> d.users, groups |-> d.groups, rc |-> 2]
    ELSE LET named == {args[k].val : k \in 1..Len(args)}
             added == {u \in named \cap DOMAIN d.users : group \notin d.users[u].groups}
         IN  [users |-> [u \in DOMAIN d.users |->
                            IF u \in added
                            THEN [d.users[u] EXCEPT !.groups = @ \cup {group}]
                            ELSE d.users[u]],
              groups |-> d.groups,
              rc |-> IF added = named /\ Cardinality(named) = Len(args)
                     THEN 0 ELSE 1]

IpaGroupRemoveMember(d, group, args) ==
    IF group \notin d.groups
    THEN [users |-> d.users, groups |-> d.groups, rc |-> 2]
    ELSE LET named == {args[k].val : k \in 1..Len(args)}
             removed == {u \in named \cap DOMAIN d.users : group \in d.users[u].groups}
         IN  [users |-> [u \in DOMAIN d.users |->
                            IF u \in removed
                            THEN [d.users[u] EXCEPT !.groups = @ \ {group}]
                            ELSE d.users[u]],
              groups |-> d.groups,
              rc |-> IF removed = named /\ Cardinality(named) = Len(args)
                     THEN 0 ELSE 1]

\* subprocess.call(['ipa', '--no-prompt', command, primary_key] + args)
IpaCall(d, command, primary_key, args) ==
    CASE command = "user-add" -> IpaUserAdd(d, primary_key, args)
      [] command = "user-mod" -> IpaUserMod(d, primary_key, args)
      [] command = "group-add" -> IpaGroupAdd(d, primary_key, args)
      [] command = "group-add-member" -> IpaGroupAddMember(d, primary_key, args)
      [] command = "group-remove-member" ->
             IpaGroupRemoveMember(d, primary_key, args)

\* The exit statuses `ipa group-show group` can end with: 0 when the group is
\* found, 2 when it is not, 1 when the lookup itself fails.
GroupShowFound == 0
GroupShowFailed == 1
GroupShowNotFound == 2

GroupShow(groups, group, mayFail) ==
    {IF group \in groups THEN GroupShowFound ELSE GroupShowNotFound}
    \cup (IF mayFail THEN {GroupShowFailed} ELSE {})

(***************************************************************************)
(* find_user_differences.                                                  *)
(***************************************************************************)
DictGet(d, k, default) == IF k \in DOMAIN d THEN d[k] ELSE default

EmptyChanges ==
    [c \in {"user-mod", "user-add", "group-add-member", "group-remove-member"}
        |-> <<>>]

\* changes[category][group].append('--users=' + user), for every group of gs
AppendUser(ch, category, gs, user) ==
    [ch EXCEPT ![category] =
        [g \in DOMAIN @ \cup gs |->
            IF g \in gs
            THEN DictGet(@, g, <<>>) \o <<[flag |-> "users", val |-> user]>>
            ELSE @[g]]]

LoginOfOld(new, old) ==
    IF "user_login" \in DOMAIN old THEN Join(old["user_login"]) ELSE ""

\* line 184
LoginOf(new, old) == new.user_login

AttrArg(k, new) ==
    [flag |-> IPA_CMDLINE_MAP[k].flag,
     val |-> Strip(new[IPA_CMDLINE_MAP[k].key], Whitespace)]

AttrChangedUnstripped(k, new, old) ==
    new[IPA_CMDLINE_MAP[k].key]
        # Strip(DictGet(old, IPA_CMDLINE_MAP[k].key, <<>>), Whitespace)

\* lines 188-190
AttrChanged(k, new, old) ==
    Strip(new[IPA_CMDLINE_MAP[k].key], Whitespace)
        # Strip(DictGet(old, IPA_CMDLINE_MAP[k].key, <<>>), Whitespace)

\* lines 186-192
UserChanges(new, old) ==
    LET all == [k \in 1..Len(IPA_CMDLINE_MAP) |->
                   [arg |-> AttrArg(k, new), changed |-> AttrChanged(k, new, old)]]
        kept == SelectSeq(all, LAMBDA a : a.changed)
    IN  [k \in 1..Len(kept) |-> kept[k].arg]

\* lines 185-198
DiffAttributes(ch, new, old) ==
    LET user == LoginOf(new, old) IN
    IF DOMAIN old # {}
    THEN IF UserChanges(new, old) # <<>>
         THEN [ch EXCEPT !["user-mod"] = DictPut(@, user, UserChanges(new, old))]
         ELSE ch
    ELSE [ch EXCEPT !["user-add"] =
             DictPut(@, user, [k \in 1..Len(IPA_CMDLINE_MAP) |-> AttrArg(k, new)])]

EffectiveGroupsNoDefault(entry) == DictGet(entry, "member_of_groups", {})

\* lines 200-201: the entry's groups together with the default groups
EffectiveGroups(entry) == DictGet(entry, "member_of_groups", {}) \cup DEFAULT_GROUPS

\* lines 200-206
DiffGroups(ch, new, old) ==
    LET user == LoginOf(new, old)
        old_groups == EffectiveGroups(old)
        new_groups == EffectiveGroups(new)
    IN  AppendUser(AppendUser(ch, "group-add-member", new_groups \ old_groups, user),
                   "group-remove-member", old_groups \ new_groups, user)

\* one iteration of the loop of find_user_differences
DiffEntry(ch, new, old) == DiffGroups(DiffAttributes(ch, new, old), new, old)

\* find_user_differences(csv_entries, ipa_entries) with the directory `users`
RECURSIVE FindUserDifferencesFrom(_, _, _)
FindUserDifferencesFrom(ch, entries, users) ==
    IF entries = <<>> THEN ch
    ELSE FindUserDifferencesFrom(
             DiffEntry(ch, Head(entries), IpaEntry(users, Head(entries).user_login)),
             Tail(entries), users)

FindUserDifferences(entries, users) ==
    FindUserDifferencesFrom(EmptyChanges, entries, users)

(***************************************************************************)
(* find_group_changes.                                                     *)
(***************************************************************************)
NewGroupArgs(descriptions, group) ==
    IF group \in DOMAIN descriptions
    THEN <<[flag |-> "desc", val |-> descriptions[group]]>>
    ELSE <<>>

NeedsCreationInverted(rc) == rc = 0

\* line 216-217: subprocess.call([...]) != 0
NeedsCreation(rc) == rc # 0

\* one iteration of the loop of find_group_changes
CheckedGroup(found, descriptions, group, rc) ==
    IF NeedsCreation(rc)
    THEN DictPut(found, group, NewGroupArgs(descriptions, group))
    ELSE found

\* find_group_changes when every lookup answers
FindGroupChanges(user_changes, descriptions, groups) ==
    [g \in {g \in DOMAIN user_changes["group-add-member"] :
               \E rc \in GroupShow(groups, g, FALSE) : NeedsCreation(rc)}
        |-> NewGroupArgs(descriptions, g)]

(***************************************************************************)
(* main, step by step: every call of the ipa tool and every prompt is a    *)
(* step of its own.                                                        *)
(***************************************************************************)
COMMANDS_MembersFirst ==
    <<"user-add", "user-mod", "group-add-member", "group-add",
      "group-remove-member">>

\* lines 226-227
COMMANDS ==
    <<"user-add", "user-mod", "group-add", "group-add-member",
      "group-remove-member">>

\* fix_csv_group_names, the entry at index k
FixCsvGroupNamesEntry(entry) ==
    [entry EXCEPT !.member_of_groups = MemberOfGroups(@)]

\* one iteration of the loop of fix_csv_group_names
FixCsvGroupNamesStep ==
    /\ pc = "fix_csv_group_names"
    /\ i <= Len(csv_entries)
    /\ csv_entries' = [csv_entries EXCEPT ![i] = FixCsvGroupNamesEntry(@)]
    /\ group_descriptions' =
           UpdateDescriptions(group_descriptions, csv_entries[i].member_of_groups)
    /\ i' = i + 1
    /\ UNCHANGED <<csv_rows, pc, changes, group_changes, checked, issued, answer,
                   exit_status, log, directory, directory0>>

\* lines 236-241, up to the first pass of the loop of find_user_differences
FixCsvFields ==
    /\ pc = "fix_csv_group_names"
    /\ i > Len(csv_entries)
    /\ csv_entries' = [k \in 1..Len(csv_entries) |->
                          FixCsvZeroEntry(FixCsvEmail(csv_entries[k]))]
    /\ changes' = EmptyChanges
    /\ i' = 1
    /\ pc' = "find_user_differences"
    /\ UNCHANGED <<csv_rows, group_descriptions, group_changes, checked, issued,
                   answer, exit_status, log, directory, directory0>>

LookupEvent(op, key, rc) ==
    [kind |-> "lookup", op |-> op, key |-> key, args |-> <<>>, rc |-> rc,
     missing |-> {}]

\* one iteration of the loop of find_user_differences: query_ipa and
\* fix_ipa_groups yield the next directory entry, which is compared
FindUserDifferencesStep ==
    /\ pc = "find_user_differences"
    /\ i <= Len(csv_entries)
    /\ LET new == csv_entries[i]
           old == IpaEntry(directory.users, new.user_login)
       IN  /\ changes' = DiffEntry(changes, new, old)
           /\ log' = Append(log, LookupEvent("user-show", new.user_login,
                                             IF DOMAIN old = {} THEN 2 ELSE 0))
    /\ i' = i + 1
    /\ UNCHANGED <<csv_rows, csv_entries, group_descriptions, pc, group_changes,
                   checked, issued, answer, exit_status, directory, directory0>>

\* line 208, and line 214
FindUserDifferencesReturn ==
    /\ pc = "find_user_differences"
    /\ i > Len(csv_entries)
    /\ pc' = "find_group_changes"
    /\ group_changes' = <<>>
    /\ checked' = {}
    /\ UNCHANGED <<csv_rows, csv_entries, group_descriptions, i, changes, issued,
                   answer, exit_status, log, directory, directory0>>

\* A dict yields its keys in an order that is fixed by the dict; the model
\* takes one such order.
NextKey(keys) == CHOOSE key \in keys : TRUE

FailedLookups ==
    {k \in 1..Len(log) : log[k].op = "group-show" /\ log[k].rc = GroupShowFailed}

\* one iteration of the loop of find_group_changes
FindGroupChangesStep ==
    /\ pc = "find_group_changes"
    /\ DOMAIN changes["group-add-member"] \ checked # {}
    /\ LET group == NextKey(DOMAIN changes["group-add-member"] \ checked) IN
         \E rc \in GroupShow(directory.groups, group,
                             Cardinality(FailedLookups) < MaxFailures) :
           /\ group_changes' =
                  CheckedGroup(group_changes, group_descriptions, group, rc)
           /\ checked' = checked \cup {group}
           /\ log' = Append(log, LookupEvent("group-show", group, rc))
    /\ UNCHANGED <<csv_rows, csv_entries, group_descriptions, pc, i, changes,
                   issued, answer, exit_status, directory, directory0>>

\* not any(changes.values())
PlanIsEmpty(ch) == \A c \in DOMAIN ch : DOMAIN ch[c] = {}

\* lines 220 and 242-246
FindGroupChangesReturn ==
    /\ pc = "find_group_changes"
    /\ DOMAIN changes["group-add-member"] \subseteq checked
    /\ LET plan == DictPut(changes, "group-add", group_changes)
       IN  /\ changes' = plan
           /\ IF PlanIsEmpty(plan)
              THEN pc' = "done" /\ exit_status' = 0
              ELSE pc' = "prompt" /\ exit_status' = exit_status
    /\ UNCHANGED <<csv_rows, csv_entries, group_descriptions, i, group_changes,
                   checked, issued, answer, log, directory, directory0>>

Answers == {"Y", "n", "d", "x"}

\* answer.lower()
AnswerLower(given) ==
    CASE given = "Y" -> "y"
      [] given = "N" -> "n"
      [] given = "D" -> "d"
      [] OTHER -> given

\* line 259
IsAbort(given) == AnswerLower(given) = "n"

AcceptsDetails(given) == AnswerLower(given) \in {"y", "d"}

\* line 261
IsAccept(given) == AnswerLower(given) = "y"

\* one pass of the loop of lines 257-266
Prompt ==
    /\ pc = "prompt"
    /\ \E given \in Answers :
         /\ answer' = given
         /\ IF IsAbort(given)
            THEN pc' = "done" /\ exit_status' = 2
            ELSE IF IsAccept(given)
            THEN pc' = "commit_changes" /\ exit_status' = exit_status
            ELSE pc' = pc /\ exit_status' = exit_status
    /\ UNCHANGED <<csv_rows, csv_entries, group_descriptions, i, changes,
                   group_changes, checked, issued, log, directory, directory0>>

Pending(command) ==
    {key \in DOMAIN changes[command] : <<command, key>> \notin issued}

\* the command the outer loop of commit_changes is at: the first with keys left
CurrentCommand(order) ==
    LET left == {c \in 1..Len(order) : Pending(order[c]) # {}}
    IN  IF left = {} THEN 0 ELSE CHOOSE c \in left : \A e \in left : c <= e

\* the users and the group a command names that are not in the directory
Missing(d, command, key, args) ==
    IF command \in {"group-add-member", "group-remove-member"}
    THEN ({key} \ d.groups) \cup ({args[k].val : k \in 1..Len(args)} \ DOMAIN d.users)
    ELSE IF command = "user-mod" THEN {key} \ DOMAIN d.users
    ELSE {}

\* one pass of the inner loop of commit_changes
CommitChangesStep ==
    /\ pc = "commit_changes"
    /\ CurrentCommand(COMMANDS) # 0
    /\ LET command == COMMANDS[CurrentCommand(COMMANDS)]
           key == NextKey(Pending(command))
       IN
         LET args == changes[command][key]
             after == IpaCall(directory, command, key, args)
         IN  /\ directory' = [users |-> after.users, groups |-> after.groups]
             /\ issued' = issued \cup {<<command, key>>}
             /\ log' = Append(log, [kind |-> "command", op |-> command,
                                    key |-> key, args |-> args, rc |-> after.rc,
                                    missing |-> Missing(directory, command, key,
                                                        args)])
    /\ UNCHANGED <<csv_rows, csv_entries, group_descriptions, pc, i, changes,
                   group_changes, checked, answer, exit_status, directory0>>

\* line 263
CommitChangesReturn ==
    /\ pc = "commit_changes"
    /\ CurrentCommand(COMMANDS) = 0
    /\ pc' = "done"
    /\ exit_status' = 0
    /\ UNCHANGED <<csv_rows, csv_entries, group_descriptions, i, changes,
                   group_changes, checked, issued, answer, log, directory,
                   directory0>>

(***************************************************************************)
(* The runs that are checked.                                              *)
(***************************************************************************)
Logins == {"u1", "u2"}

Row(login, first, last, email, phone, mobile, groups) ==
    [user_login |-> login, first_name |-> first, last_name |-> last,
     email_address |-> email, telephone_number |-> phone,
     mobile_telephone_number |-> mobile, member_of_groups |-> groups]

\* the rows a CSV file is made of
Rows ==
    UNION { { Row(l, <<"x">>, <<"y">>, <<"x", ";", "y">>, <<" ", "0">>, <<>>,
                  <<>>),
              Row(l, <<"x">>, <<"y">>, <<"x", ";", "y">>, <<" ", "0">>, <<>>,
                  <<"B", "/", "{A-uml}">>),
              Row(l, <<"x", " ">>, <<"x">>, <<"0">>, <<"1">>, <<"0", "0">>,
                  <<"a", "e">>),
              Row(l, <<"x", " ">>, <<"x">>, <<"0">>, <<"1">>, <<"0", "0">>,
                  <<" ", "/">>) } : l \in Logins }

Batches(rows, n) == UNION {[1..k -> rows] : k \in 0..n}

\* the users the directory may hold before the run; each is a member of
\* groups that exist, and the default groups exist
DirectoryUsers ==
    { [attrs |-> [first_name |-> <<"x">>, last_name |-> <<"y">>,
                  email_address |-> <<"x">>],
       groups |-> {IPAUSERS}],
      [attrs |-> [first_name |-> <<"y">>, telephone_number |-> <<"1">>],
       groups |-> {"ae", "c"}] }

OtherGroups == {"ae", "b"}

Directories ==
    { [users |-> us,
       groups |-> DEFAULT_GROUPS \cup gs
                  \cup UNION {us[u].groups : u \in DOMAIN us}] :
        us \in UNION {[ls -> DirectoryUsers] : ls \in SUBSET Logins},
        gs \in SUBSET OtherGroups }

\* main(filename), from line 234 on: the file is read and the first pass of the
\* loop of fix_csv_group_names begins
InitRun(rows, d) ==
    /\ csv_rows = rows
    /\ csv_entries = rows
    /\ group_descriptions = <<>>
    /\ pc = "fix_csv_group_names"
    /\ i = 1
    /\ changes = <<>>
    /\ group_changes = <<>>
    /\ checked = {}
    /\ issued = {}
    /\ answer = "none"
    /\ exit_status = "none"
    /\ log = <<>>
    /\ directory = d
    /\ directory0 = d

Init ==
    \E rows \in Batches(Rows, MaxEntries) :
      \E d \in Directories : InitRun(rows, d)

Next ==
    \/ FixCsvGroupNamesStep
    \/ FixCsvFields
    \/ FindUserDifferencesStep
    \/ FindUserDifferencesReturn
    \/ FindGroupChangesStep
    \/ FindGroupChangesReturn
    \/ Prompt
    \/ CommitChangesStep
    \/ CommitChangesReturn

Spec == Init /\ [][Next]_vars

(***************************************************************************)
(* fix_csv_group_names on every batch of short group fields.               *)
(***************************************************************************)
NormAlphabet == {"a", "A", " ", "/", "!", "{a-uml}", "{e-acute}"}

NormBatchLengths == {1, 2}

Texts(chars, n) == UNION {[1..k -> chars] : k \in 0..n}

NormRows ==
    {Row("u1", <<"x">>, <<"y">>, <<>>, <<>>, <<>>, f) :
        f \in Texts(NormAlphabet, MaxLen)}

EmptyDirectory == [users |-> <<>>, groups |-> DEFAULT_GROUPS]

InitNorm ==
    \E rows \in UNION {[1..k -> NormRows] : k \in NormBatchLengths} :
      InitRun(rows, EmptyDirectory)

NextNorm == FixCsvGroupNamesStep

SpecNorm == InitNorm /\ [][NextNorm]_vars

(***************************************************************************)
(* find_user_differences on batches and directories that differ in the     *)
(* groups of the users, the default group among them.                      *)
(***************************************************************************)
IpausersField == <<"i", "p", "a", "u", "s", "e", "r", "s">>

DiffGroupFields ==
    { <<>>, <<"a">>, IpausersField, IpausersField \o <<"/", "a">> }

DiffRows ==
    {Row(l, <<"x">>, <<"y">>, <<>>, <<>>, <<>>, f) :
        l \in Logins, f \in DiffGroupFields}

DiffDirectoryUsers ==
    { [attrs |-> [first_name |-> <<"x">>, last_name |-> <<"y">>], groups |-> gs] :
        gs \in SUBSET {"a", IPAUSERS} }

DiffDirectories ==
    { [users |-> us, groups |-> {"a", IPAUSERS}] :
        us \in UNION {[ls -> DiffDirectoryUsers] : ls \in SUBSET Logins} }

InitDiff ==
    \E rows \in Batches(DiffRows, MaxEntries) :
      \E d \in DiffDirectories : InitRun(rows, d)

NextDiff ==
    \/ FixCsvGroupNamesStep
    \/ FixCsvFields
    \/ FindUserDifferencesStep

SpecDiff == InitDiff /\ [][NextDiff]_vars

(***************************************************************************)
(* What the claims speak of.                                               *)
(***************************************************************************)
CommandEvents == {k \in 1..Len(log) : log[k].kind = "command"}

LookupEvents == {k \in 1..Len(log) : log[k].kind = "lookup"}

FiveCategories ==
    {"user-add", "user-mod", "group-add", "group-add-member",
     "group-remove-member"}

\* the place of a category in the order the specification fixes
CategoryRank(op) ==
    CASE op = "user-add" -> 1
      [] op = "user-mod" -> 2
      [] op = "group-add" -> 3
      [] op = "group-add-member" -> 4
      [] op = "group-remove-member" -> 5

PlanBuilt == pc \in {"prompt", "commit_changes", "done"}

UniqueLogins ==
    \A e, f \in 1..Len(csv_rows) :
        csv_rows[e].user_login = csv_rows[f].user_login => e = f

BatchLogins == {csv_rows[e].user_login : e \in 1..Len(csv_rows)}

AllCommandsSucceeded == \A k \in CommandEvents : log[k].rc = 0

UsersNamed(event) == {event.args[k].val : k \in 1..Len(event.args)}

(***************************************************************************)
(* C1.  commit_changes issues the commands category by category, in the    *)
(* order user-add, user-mod, group-add, group-add-member,                  *)
(* group-remove-member: when a command is issued, every command of every   *)
(* earlier category of the plan has been issued before it.                 *)
(***************************************************************************)
C1_CategoryOrder ==
    \A q \in CommandEvents :
        /\ \A p \in CommandEvents :
               p < q => CategoryRank(log[p].op) <= CategoryRank(log[q].op)
        /\ \A c \in FiveCategories :
               CategoryRank(c) < CategoryRank(log[q].op) =>
                   \A key \in DOMAIN changes[c] :
                       \E p \in CommandEvents :
                           p < q /\ log[p].op = c /\ log[p].key = key

\* C1: a finished run that issued commands of all five categories
C1_Witness ==
    /\ pc = "done"
    /\ {log[k].op : k \in CommandEvents} = FiveCategories

(***************************************************************************)
(* C2.  With unique logins, lookups that answer and commands that succeed, *)
(* the group and the users of a group-add-member command exist in the      *)
(* directory when the command is issued.                                   *)
(***************************************************************************)
C2_MembersAddedToExisting ==
    (UniqueLogins /\ FailedLookups = {}) =>
        \A q \in CommandEvents :
            (/\ log[q].op = "group-add-member"
             /\ \A p \in CommandEvents : p < q => log[p].rc = 0)
            => log[q].missing = {}

\* C2: a user the run added is made a member of a group the run created
C2_Witness ==
    /\ UniqueLogins
    /\ FailedLookups = {}
    /\ AllCommandsSucceeded
    /\ \E q \in CommandEvents :
           /\ log[q].op = "group-add-member"
           /\ log[q].key \in DOMAIN changes["group-add"]
           /\ log[q].key \notin directory0.groups
           /\ UsersNamed(log[q]) \cap DOMAIN changes["user-add"] # {}

(***************************************************************************)
(* C3.  Idempotence: with unique logins, once every command of the plan    *)
(* has been issued and has succeeded, the plan computed again from the     *)
(* same batch against the directory as it is now has five empty            *)
(* categories.                                                             *)
(***************************************************************************)
PlanAgain ==
    LET user_changes == FindUserDifferences(csv_entries, directory.users)
    IN  DictPut(user_changes, "group-add",
                FindGroupChanges(user_changes, group_descriptions,
                                 directory.groups))

Committed == pc = "done" /\ CommandEvents # {}

C3_Idempotence ==
    (Committed /\ UniqueLogins /\ AllCommandsSucceeded) =>
        /\ DOMAIN PlanAgain = FiveCategories
        /\ \A c \in FiveCategories : DOMAIN PlanAgain[c] = {}

\* C3: a plan with all five categories was applied, every command succeeding
C3_Witness ==
    /\ Committed
    /\ UniqueLogins
    /\ AllCommandsSucceeded
    /\ \A c \in FiveCategories : DOMAIN changes[c] # {}

(***************************************************************************)
(* C4.  The keys of group-add are exactly the keys of group-add-member     *)
(* that the lookup reports as not existing: an existing group gets no      *)
(* group-add entry, a missing one always does.                             *)
(***************************************************************************)
ReportedMissing(group) ==
    \E k \in LookupEvents :
        /\ log[k].op = "group-show"
        /\ log[k].key = group
        /\ log[k].rc = GroupShowNotFound

C4_GroupAddIsReportedMissing ==
    PlanBuilt =>
        /\ DOMAIN changes["group-add"] =
               {g \in DOMAIN changes["group-add-member"] : ReportedMissing(g)}
        /\ DOMAIN changes["group-add"] \cap directory0.groups = {}

(***************************************************************************)
(* C5.  A group lookup that fails is surfaced as a failure of the run: the *)
(* group is not put into group-add and the run does not go on to the       *)
(* prompt as if the lookup had answered.                                   *)
(***************************************************************************)
C5_FailedLookupIsSurfaced ==
    \A k \in FailedLookups :
        /\ log[k].key \notin DOMAIN group_changes
        /\ ~PlanBuilt

(***************************************************************************)
(* C6.  The catalog maps a canonical group id to the original segment of   *)
(* one of its occurrences in the batch.                                    *)
(***************************************************************************)
\* the entries fix_csv_group_names has been through
Normalised == 1..(IF pc = "fix_csv_group_names" THEN i - 1 ELSE Len(csv_rows))

\* the places <<entry, segment>> where the id occurs in the batch so far
Occurrences(id) ==
    UNION { { <<e, k>> : k \in {k \in DOMAIN GroupNames(csv_rows[e].member_of_groups) :
                                   GroupNames(csv_rows[e].member_of_groups)[k] = id} } :
            e \in Normalised }

Before(a, b) == a[1] < b[1] \/ (a[1] = b[1] /\ a[2] <= b[2])

FirstOccurrence(id) ==
    CHOOSE a \in Occurrences(id) : \A b \in Occurrences(id) : Before(a, b)

LastOccurrence(id) ==
    CHOOSE a \in Occurrences(id) : \A b \in Occurrences(id) : Before(b, a)

SegmentAt(a) == OriginalSegments(csv_rows[a[1]].member_of_groups)[a[2]]

CanonicalIds == UNION {MemberOfGroups(csv_rows[e].member_of_groups) : e \in Normalised}

\* C6 as claimed: the first occurrence of an id in batch order decides its
\* catalog entry, and no later record changes it
C6_FirstLabelWins ==
    \A id \in CanonicalIds :
        /\ id \in DOMAIN group_descriptions
        /\ group_descriptions[id] = SegmentAt(FirstOccurrence(id))

\* C6 as amended: the last occurrence of an id in batch order decides its
\* catalog entry, a later record replacing the entry of an earlier one
C6_LastLabelWins ==
    \A id \in CanonicalIds :
        /\ id \in DOMAIN group_descriptions
        /\ group_descriptions[id] = SegmentAt(LastOccurrence(id))

\* C6: an id that occurs twice in the batch, with two different labels
C6_Witness ==
    /\ pc = "fix_csv_group_names"
    /\ i > Len(csv_rows)
    /\ \E id \in CanonicalIds :
           SegmentAt(FirstOccurrence(id)) # SegmentAt(LastOccurrence(id))

(***************************************************************************)
(* C7.  The keys of the catalog are exactly the canonical group ids of the *)
(* entries' member_of_groups sets; the empty string is never a key.        *)
(***************************************************************************)
C7_CatalogKeysAreGroups ==
    /\ DOMAIN group_descriptions
           = UNION {csv_entries[e].member_of_groups : e \in Normalised}
    /\ "" \notin DOMAIN group_descriptions

(***************************************************************************)
(* C8.  Default-group invariance: a user of the directory whose groups in  *)
(* the batch and in the directory are the same but for the default groups  *)
(* is put on no group-add-member and on no group-remove-member list.       *)
(***************************************************************************)
Compared == IF pc = "find_user_differences" THEN 1..(i - 1) ELSE {}

OnSomeList(category, login) ==
    \E g \in DOMAIN changes[category] :
        \E k \in 1..Len(changes[category][g]) : changes[category][g][k].val = login

SameButDefault(e) ==
    LET login == csv_entries[e].user_login IN
    /\ login \in DOMAIN directory0.users
    /\ \A f \in 1..Len(csv_entries) : csv_entries[f].user_login = login => f = e
    /\ csv_entries[e].member_of_groups \ DEFAULT_GROUPS
           = directory0.users[login].groups \ DEFAULT_GROUPS

C8_DefaultGroupInvariance ==
    \A e \in Compared :
        SameButDefault(e) =>
            /\ ~OnSomeList("group-add-member", csv_entries[e].user_login)
            /\ ~OnSomeList("group-remove-member", csv_entries[e].user_login)

\* C8: a compared user with the default group in the batch only, and one
\* with it in the directory only
C8_Witness ==
    \E e, f \in Compared :
        /\ SameButDefault(e)
        /\ SameButDefault(f)
        /\ IPAUSERS \in csv_entries[e].member_of_groups
        /\ IPAUSERS \notin directory0.users[csv_entries[e].user_login].groups
        /\ IPAUSERS \notin csv_entries[f].member_of_groups
        /\ IPAUSERS \in directory0.users[csv_entries[f].user_login].groups
        /\ csv_entries[e].member_of_groups \ DEFAULT_GROUPS # {}

(***************************************************************************)
(* C9.  No user is deleted: who is in the directory before the run is in   *)
(* it afterwards; every command is of the five categories, and every login *)
(* a command names is a login of the batch.                                *)
(***************************************************************************)
C9_NoUserDeleted ==
    /\ DOMAIN directory0.users \subseteq DOMAIN directory.users
    /\ \A k \in CommandEvents :
           /\ log[k].op \in FiveCategories
           /\ log[k].op \in {"user-add", "user-mod"} => log[k].key \in BatchLogins
           /\ log[k].op \in {"group-add-member", "group-remove-member"} =>
                  UsersNamed(log[k]) \subseteq BatchLogins

\* C9: a finished run that added a user, changed one and took one out of a
\* group, in a directory with a user the batch does not name
C9_Witness ==
    /\ pc = "done"
    /\ {"user-add", "user-mod", "group-remove-member"}
           \subseteq {log[k].op : k \in CommandEvents}
    /\ DOMAIN directory0.users # {}

(***************************************************************************)
(* C10.  No command is issued unless the plan is not empty and the         *)
(* operator answered y; an empty plan ends the run with no prompt; n ends  *)
(* it with status 2 and the directory as it was; any other answer changes  *)
(* nothing and leaves the run at the prompt; every lookup is made before   *)
(* the first command.                                                      *)
(***************************************************************************)
C10_CommitOnlyWhenAccepted ==
    /\ CommandEvents # {} =>
           /\ AnswerLower(answer) = "y"
           /\ \E c \in FiveCategories : DOMAIN changes[c] # {}
           /\ \A e \in 1..Len(csv_entries) :
                  \E k \in LookupEvents :
                      /\ log[k].op = "user-show"
                      /\ log[k].key = csv_entries[e].user_login
           /\ \A g \in DOMAIN changes["group-add-member"] :
                  \E k \in LookupEvents : log[k].op = "group-show" /\ log[k].key = g
    /\ \A p \in CommandEvents : \A q \in LookupEvents : q < p
    /\ (PlanBuilt /\ \A c \in FiveCategories : DOMAIN changes[c] = {}) =>
           /\ pc = "done"
           /\ exit_status = 0
           /\ answer = "none"
           /\ CommandEvents = {}
    /\ AnswerLower(answer) = "n" =>
           /\ pc = "done"
           /\ exit_status = 2
           /\ directory = directory0
           /\ CommandEvents = {}
    /\ AnswerLower(answer) \notin {"none", "y", "n"} =>
           /\ pc = "prompt"
           /\ exit_status = "none"
           /\ directory = directory0
           /\ CommandEvents = {}
    /\ pc \notin {"prompt", "commit_changes", "done"} => answer = "none"

\* C10: a run that was accepted and issued its commands
C10_Witness ==
    /\ pc = "done"
    /\ exit_status = 0
    /\ AnswerLower(answer) = "y"
    /\ CommandEvents # {}
    /\ directory # directory0
    /\ \E k \in LookupEvents : log[k].op = "group-show"

====
